---- MODULE Spec2Model ----
(***************************************************************************)
(* Model of nexus.py: the remote diagnostic collection pipeline            *)
(* (connect_switch, execute_command, collect_switch_data), the report      *)
(* formatter (the join in analyze_with_ai and truncate_text) and the part  *)
(* of main that drives the collection.                                     *)
(*                                                                         *)
(* Texts are sequences of one-character strings (a command is a string,    *)
(* Text gives its characters), byte streams are sequences of byte values,  *)
(* a dict is the sequence of its (key, value) entries in insertion order,  *)
(* and an optional value is a record                                       *)
(* [some |-> FALSE] (Python None) or [some |-> TRUE, val |-> v].           *)
(***************************************************************************)
EXTENDS Integers, Sequences, FiniteSets, TLC

VARIABLES
    pc,          \* position of the single thread of control
    ssh,         \* state of the paramiko client held by collect_switch_data
    idx,         \* index in commands of the next iteration of the for loop
    data,        \* the dict built by collect_switch_data
    last,        \* locals of the latest execute_command call
    pending,     \* exception propagating out of the try block, if any
    switch_data, \* value collect_switch_data returned to main
    log,         \* records handed to logger, oldest first
    dispatched,  \* calls of ssh.exec_command, with the client state at the call
    closeCount,  \* calls of ssh.close
    fmtPc,       \* position of the formatter
    fmtData,     \* dict given to the formatter
    fmtText,     \* text given to truncate_text
    fmtMax,      \* max_chars given to truncate_text
    fmtOut,      \* string returned by the formatter / truncate_text
    saved,       \* dict written to the json file by main, if any
    problem,     \* problem description main read, once read
    request,     \* what analyze_with_ai handed to chain.invoke, if anything
    analysis,    \* value analyze_with_ai returned to main
    fault,       \* exception raised by a call made in analyze_with_ai, if any
    execOut      \* result of a direct call of execute_command

vars == <<pc, ssh, idx, data, last, pending, switch_data, log, dispatched,
          closeCount, fmtPc, fmtData, fmtText, fmtMax, fmtOut, saved, problem,
          request, analysis, fault, execOut>>

pipeVars == <<pc, ssh, idx, data, last, pending, switch_data, log, dispatched,
              closeCount>>

fmtVars == <<fmtPc, fmtData, fmtText, fmtMax, fmtOut>>

mainVars == <<saved, problem, request, analysis, fault>>

execVars == <<execOut>>

----------------------------------------------------------------------------
(* Python values *)

None == [some |-> FALSE]

Some(v) == [some |-> TRUE, val |-> v]

\* the fixed list of collect_switch_data
commands ==
    << "show version",
       "show system resources",
       "show environment",
       "show logging log | last 100",
       "show interface status",
       "show ip interface brief",
       "show processes cpu history" >>

\* the characters of a command string, as string formatting writes them
Text(cmd) ==
    CASE cmd = "show version" ->
          <<"s", "h", "o", "w", " ", "v", "e", "r", "s", "i", "o", "n">>
      [] cmd = "show system resources" ->
          <<"s", "h", "o", "w", " ", "s", "y", "s", "t", "e", "m", " ", "r", "e",
             "s", "o", "u", "r", "c", "e", "s">>
      [] cmd = "show environment" ->
          <<"s", "h", "o", "w", " ", "e", "n", "v", "i", "r", "o", "n", "m", "e",
             "n", "t">>
      [] cmd = "show logging log | last 100" ->
          <<"s", "h", "o", "w", " ", "l", "o", "g", "g", "i", "n", "g", " ", "l",
             "o", "g", " ", "|", " ", "l", "a", "s", "t", " ", "1", "0", "0">>
      [] cmd = "show interface status" ->
          <<"s", "h", "o", "w", " ", "i", "n", "t", "e", "r", "f", "a", "c", "e",
             " ", "s", "t", "a", "t", "u", "s">>
      [] cmd = "show ip interface brief" ->
          <<"s", "h", "o", "w", " ", "i", "p", " ", "i", "n", "t", "e", "r", "f",
             "a", "c", "e", " ", "b", "r", "i", "e", "f">>
      [] cmd = "show processes cpu history" ->
          <<"s", "h", "o", "w", " ", "p", "r", "o", "c", "e", "s", "s", "e", "s",
             " ", "c", "p", "u", " ", "h", "i", "s", "t", "o", "r", "y">>

\* str.strip() on a text whose only whitespace character is the blank
RECURSIVE LStrip(_)
LStrip(s) ==
    IF s # <<>> /\ Head(s) = " " THEN LStrip(Tail(s)) ELSE s

RECURSIVE RStrip(_)
RStrip(s) ==
    IF s # <<>> /\ s[Len(s)] = " " THEN RStrip(SubSeq(s, 1, Len(s) - 1)) ELSE s

Strip(s) == RStrip(LStrip(s))

\* what the operator may type at a prompt
InputSamples == { <<>>, <<" ">>, <<"x">> }

----------------------------------------------------------------------------
(* bytes.decode(): UTF-8 decoding of the sampled byte values *)

\* byte values the remote streams are built from: "a", "e" and a byte that
\* is not valid UTF-8
Chr == (97 :> "a") @@ (101 :> "e")

CanDecode(bytes) == \A i \in 1..Len(bytes) : bytes[i] \in DOMAIN Chr

Decode(bytes) == [i \in 1..Len(bytes) |-> Chr[bytes[i]]]

\* contents of the remote standard-output and standard-error streams
StdoutSamples == { <<>>, <<97>>, <<255>> }

StderrSamples == { <<>>, <<101>>, <<255>> }

\* exceptions the paramiko calls raise; KeyboardInterrupt is the one that is
\* not a subclass of Exception
TransportFaults == {"SSHException", "timeout"}

\* IsException for a handler that catches paramiko.SSHException only
IsSSHException(e) == e = "SSHException"

IsException(e) == e # "KeyboardInterrupt"

\* how the remote side behaves during one execute_command call: the call
\* that raises (or "none"), what it raises, and the bytes the streams hold
RemoteBehaviours ==
    [at : {"none"}, exc : {"none"}, out : StdoutSamples, err : StderrSamples]
    \cup [at : {"exec_command", "stdout.read"},
          exc : TransportFaults \cup {"KeyboardInterrupt"},
          out : {<<>>}, err : {<<>>}]
    \cup [at : {"stderr.read"},
          exc : TransportFaults \cup {"KeyboardInterrupt"},
          out : StdoutSamples, err : {<<>>}]

----------------------------------------------------------------------------
(* logging *)

LogRecord(level, event, cmd) == [level |-> level, event |-> event, cmd |-> cmd]

NoCmd == ""

----------------------------------------------------------------------------
(* dict *)

HasKey(d, k) == \E i \in 1..Len(d) : d[i].key = k

\* DictSet with a new key put in front of the existing ones
DictSetInFront(d, k, v) ==
    IF HasKey(d, k)
    THEN [i \in 1..Len(d) |-> IF d[i].key = k THEN [key |-> k, val |-> v] ELSE d[i]]
    ELSE <<[key |-> k, val |-> v]>> \o d

\* d[k] = v : a new key is appended, an existing key keeps its position
DictSet(d, k, v) ==
    IF HasKey(d, k)
    THEN [i \in 1..Len(d) |-> IF d[i].key = k THEN [key |-> k, val |-> v] ELSE d[i]]
    ELSE Append(d, [key |-> k, val |-> v])

DictGet(d, k) == d[CHOOSE i \in 1..Len(d) : d[i].key = k].val

Keys(d) == [i \in 1..Len(d) |-> d[i].key]

\* truth value of a dict, of a text and of an optional dict
Truthy(d) == Len(d) > 0

----------------------------------------------------------------------------
(* execute_command *)

\* ExecuteCommand treating a non-empty standard-error as a failure
ExecuteCommandStderrFails(command, r) ==
    LET failed(e, o) ==
            IF IsException(e)
            THEN [raised |-> "none", ret |-> None,
                  logs |-> <<LogRecord("error", "command_error", command)>>,
                  output |-> o, error |-> None, reason |-> e]
            ELSE [raised |-> e, ret |-> None, logs |-> <<>>,
                  output |-> o, error |-> None, reason |-> "none"]
    IN  IF r.at \in {"exec_command", "stdout.read"} THEN failed(r.exc, None)
        ELSE IF ~CanDecode(r.out) THEN failed("UnicodeDecodeError", None)
        ELSE LET output == Decode(r.out) IN
             IF r.at = "stderr.read" THEN failed(r.exc, Some(output))
             ELSE IF ~CanDecode(r.err) THEN failed("UnicodeDecodeError", Some(output))
             ELSE LET error == Decode(r.err) IN
                  [raised |-> "none",
                   ret |-> IF error # <<>> THEN None ELSE Some(output),
                   logs |-> IF error # <<>>
                            THEN <<LogRecord("warning", "command_stderr", command)>>
                            ELSE <<>>,
                   output |-> Some(output), error |-> Some(error),
                   reason |-> "none"]

\* ExecuteCommand whose handler returns what was read before the fault
ExecuteCommandKeepsOutput(command, r) ==
    LET failed(e, o) ==
            IF IsException(e)
            THEN [raised |-> "none", ret |-> o,
                  logs |-> <<LogRecord("error", "command_error", command)>>,
                  output |-> o, error |-> None, reason |-> e]
            ELSE [raised |-> e, ret |-> None, logs |-> <<>>,
                  output |-> o, error |-> None, reason |-> "none"]
    IN  IF r.at \in {"exec_command", "stdout.read"} THEN failed(r.exc, None)
        ELSE IF ~CanDecode(r.out) THEN failed("UnicodeDecodeError", None)
        ELSE LET output == Decode(r.out) IN
             IF r.at = "stderr.read" THEN failed(r.exc, Some(output))
             ELSE IF ~CanDecode(r.err) THEN failed("UnicodeDecodeError", Some(output))
             ELSE LET error == Decode(r.err) IN
                  [raised |-> "none", ret |-> Some(output),
                   logs |-> IF error # <<>>
                            THEN <<LogRecord("warning", "command_stderr", command)>>
                            ELSE <<>>,
                   output |-> Some(output), error |-> Some(error),
                   reason |-> "none"]

\* ExecuteCommand whose handler returns an empty output
ExecuteCommandReturnsEmpty(command, r) ==
    LET failed(e, o) ==
            IF IsException(e)
            THEN [raised |-> "none", ret |-> Some(<<>>),
                  logs |-> <<LogRecord("error", "command_error", command)>>,
                  output |-> o, error |-> None, reason |-> e]
            ELSE [raised |-> e, ret |-> None, logs |-> <<>>,
                  output |-> o, error |-> None, reason |-> "none"]
    IN  IF r.at \in {"exec_command", "stdout.read"} THEN failed(r.exc, None)
        ELSE IF ~CanDecode(r.out) THEN failed("UnicodeDecodeError", None)
        ELSE LET output == Decode(r.out) IN
             IF r.at = "stderr.read" THEN failed(r.exc, Some(output))
             ELSE IF ~CanDecode(r.err) THEN failed("UnicodeDecodeError", Some(output))
             ELSE LET error == Decode(r.err) IN
                  [raised |-> "none", ret |-> Some(output),
                   logs |-> IF error # <<>>
                            THEN <<LogRecord("warning", "command_stderr", command)>>
                            ELSE <<>>,
                   output |-> Some(output), error |-> Some(error),
                   reason |-> "none"]

\* Result of execute_command(ssh, command) under remote behaviour r:
\* raised is the exception that leaves the function ("none" on return),
\* ret the returned value, logs what it logged, output and error its locals,
\* reason the exception whose text the error record carries ("none" if none).
ExecuteCommand(command, r) ==
    LET failed(e, o) ==
            IF IsException(e)
            THEN [raised |-> "none", ret |-> None,
                  logs |-> <<LogRecord("error", "command_error", command)>>,
                  output |-> o, error |-> None, reason |-> e]
            ELSE [raised |-> e, ret |-> None, logs |-> <<>>,
                  output |-> o, error |-> None, reason |-> "none"]
    IN  IF r.at \in {"exec_command", "stdout.read"} THEN failed(r.exc, None)
        ELSE IF ~CanDecode(r.out) THEN failed("UnicodeDecodeError", None)
        ELSE LET output == Decode(r.out) IN
             IF r.at = "stderr.read" THEN failed(r.exc, Some(output))
             ELSE IF ~CanDecode(r.err) THEN failed("UnicodeDecodeError", Some(output))
             ELSE LET error == Decode(r.err) IN
                  [raised |-> "none", ret |-> Some(output),
                   logs |-> IF error # <<>>
                            THEN <<LogRecord("warning", "command_stderr", command)>>
                            ELSE <<>>,
                   output |-> Some(output), error |-> Some(error),
                   reason |-> "none"]

NoCall == [command |-> NoCmd, output |-> None, error |-> None, ret |-> None,
           raised |-> "none"]

----------------------------------------------------------------------------
(* the program *)

Idle ==
    /\ fmtPc = "idle"
    /\ fmtData = <<>>
    /\ fmtText = <<>>
    /\ fmtMax = 0
    /\ fmtOut = None

\* main has not reached the file, the prompt or analyze_with_ai, and no
\* direct call of execute_command was made
NotStarted ==
    /\ saved = None
    /\ problem = None
    /\ request = None
    /\ analysis = None
    /\ fault = "none"
    /\ execOut = None

Init ==
    /\ pc = "apikey"
    /\ ssh = "none"
    /\ idx = 0
    /\ data = <<>>
    /\ last = NoCall
    /\ pending = "none"
    /\ switch_data = None
    /\ log = <<>>
    /\ dispatched = <<>>
    /\ closeCount = 0
    /\ Idle
    /\ NotStarted

\* module level: read and validate the API key; an empty key is logged and
\* re-raised, which ends the program before main
ConfigureApiKey ==
    /\ pc = "apikey"
    /\ \E typed \in InputSamples :
         LET api_key == Strip(typed) IN
         IF api_key = <<>>
         THEN /\ log' = Append(log, LogRecord("error", "api_key_error", NoCmd))
              /\ pc' = "crashed"
         ELSE /\ log' = Append(log, LogRecord("info", "main_start", NoCmd))
              /\ pc' = "main"
    /\ UNCHANGED <<ssh, idx, data, last, pending, switch_data, dispatched,
                   closeCount, fmtVars, mainVars, execVars>>

\* main: read the credentials; a missing field raises ValueError, which the
\* handler of main logs
MainReadCredentials ==
    /\ pc = "main"
    /\ \E ipTyped \in InputSamples, userTyped \in InputSamples,
          password \in InputSamples :
         LET switch_ip == Strip(ipTyped)
             username == Strip(userTyped)
         IN  IF switch_ip = <<>> \/ username = <<>> \/ password = <<>>
             THEN /\ log' = Append(log, LogRecord("error", "run_error", NoCmd))
                  /\ pc' = "done"
             ELSE /\ log' = Append(log, LogRecord("info", "collect_start", NoCmd))
                  /\ pc' = "collect"
    /\ UNCHANGED <<ssh, idx, data, last, pending, switch_data, dispatched,
                   closeCount, fmtVars, mainVars, execVars>>

\* ConnectSwitch without the test of the result of connect_switch
ConnectSwitchUnchecked ==
    /\ pc = "collect"
    /\ \E connected \in BOOLEAN :
         /\ IF connected
            THEN /\ ssh' = "open"
                 /\ log' = Append(log, LogRecord("info", "connected", NoCmd))
            ELSE /\ ssh' = ssh
                 /\ log' = Append(log, LogRecord("error", "connect_error", NoCmd))
         /\ data' = <<>>
         /\ idx' = 1
         /\ pc' = "loop"
    /\ UNCHANGED <<switch_data, last, pending, dispatched, closeCount, fmtVars, mainVars, execVars>>

\* collect_switch_data up to the try block: connect_switch, the test of its
\* result, and the creation of data
ConnectSwitch ==
    /\ pc = "collect"
    /\ \E connected \in BOOLEAN :
         IF connected
         THEN /\ ssh' = "open"
              /\ log' = Append(log, LogRecord("info", "connected", NoCmd))
              /\ data' = <<>>
              /\ idx' = 1
              /\ pc' = "loop"
              /\ UNCHANGED switch_data
         ELSE /\ log' = Append(log, LogRecord("error", "connect_error", NoCmd))
              /\ switch_data' = None
              /\ pc' = "check"
              /\ UNCHANGED <<ssh, data, idx>>
    /\ UNCHANGED <<last, pending, dispatched, closeCount, fmtVars, mainVars, execVars>>

\* Recorded for the test "if output:"
RecordedIfTruthy(output) == output # None /\ output.val # <<>>

\* one iteration of the for loop: log, execute_command, record or warn
\* the value execute_command returned is recorded unless it is None
Recorded(output) == output # None

\* CollectCommand repeating a command until it yields an output
CollectCommandRetry ==
    /\ pc = "loop"
    /\ idx <= Len(commands)
    /\ \E r \in RemoteBehaviours :
         LET cmd == commands[idx]
             res == ExecuteCommand(cmd, r)
             started == Append(log, LogRecord("info", "executing", cmd))
         IN  /\ dispatched' = Append(dispatched, [cmd |-> cmd, ssh |-> ssh])
             /\ last' = [command |-> cmd, output |-> res.output,
                         error |-> res.error, ret |-> res.ret,
                         raised |-> res.raised]
             /\ IF res.raised # "none"
                THEN /\ pending' = res.raised
                     /\ log' = started \o res.logs
                     /\ pc' = "finally"
                     /\ UNCHANGED <<data, idx>>
                ELSE /\ IF Recorded(res.ret)
                        THEN /\ data' = DictSet(data, cmd, res.ret.val)
                             /\ log' = started \o res.logs
                        ELSE /\ data' = data
                             /\ log' = (started \o res.logs) \o
                                       <<LogRecord("warning", "command_failed", cmd)>>
                     /\ idx' = IF Recorded(res.ret) THEN idx + 1 ELSE idx
                     /\ pc' = IF Recorded(res.ret) /\ idx + 1 > Len(commands)
                              THEN "finally" ELSE "loop"
                     /\ UNCHANGED pending
    /\ UNCHANGED <<ssh, switch_data, closeCount, fmtVars, mainVars, execVars>>

CollectCommand ==
    /\ pc = "loop"
    /\ idx <= Len(commands)
    /\ \E r \in RemoteBehaviours :
         LET cmd == commands[idx]
             res == ExecuteCommand(cmd, r)
             started == Append(log, LogRecord("info", "executing", cmd))
         IN  /\ dispatched' = Append(dispatched, [cmd |-> cmd, ssh |-> ssh])
             /\ last' = [command |-> cmd, output |-> res.output,
                         error |-> res.error, ret |-> res.ret,
                         raised |-> res.raised]
             /\ IF res.raised # "none"
                THEN /\ pending' = res.raised
                     /\ log' = started \o res.logs
                     /\ pc' = "finally"
                     /\ UNCHANGED <<data, idx>>
                ELSE /\ IF Recorded(res.ret)
                        THEN /\ data' = DictSet(data, cmd, res.ret.val)
                             /\ log' = started \o res.logs
                        ELSE /\ data' = data
                             /\ log' = (started \o res.logs) \o
                                       <<LogRecord("warning", "command_failed", cmd)>>
                     /\ idx' = idx + 1
                     /\ pc' = IF idx + 1 > Len(commands) THEN "finally" ELSE "loop"
                     /\ UNCHANGED pending
    /\ UNCHANGED <<ssh, switch_data, closeCount, fmtVars, mainVars, execVars>>

\* CollectResult for "return data"
CollectResultAlways(d) == Some(d)

\* return data if data else None
CollectResult(d) == IF Truthy(d) THEN Some(d) ELSE None

\* CloseSession for a close placed after the loop, outside any finally
CloseSessionAfterLoop ==
    /\ pc = "finally"
    /\ IF pending # "none"
       THEN /\ pc' = "crashed"
            /\ UNCHANGED <<ssh, closeCount, log, switch_data>>
       ELSE /\ ssh' = "closed"
            /\ closeCount' = closeCount + 1
            /\ log' = Append(log, LogRecord("info", "closed", NoCmd))
            /\ pc' = "check"
            /\ switch_data' = CollectResult(data)
    /\ last' = NoCall
    /\ UNCHANGED <<idx, data, pending, dispatched, fmtVars, mainVars, execVars>>

\* CloseSession for a close both at the end of the try block and in finally
CloseSessionTwice ==
    /\ pc = "finally"
    /\ ssh' = "closed"
    /\ closeCount' = IF pending = "none" THEN closeCount + 2 ELSE closeCount + 1
    /\ log' = Append(log, LogRecord("info", "closed", NoCmd))
    /\ last' = NoCall
    /\ IF pending # "none"
       THEN /\ pc' = "crashed"
            /\ UNCHANGED switch_data
       ELSE /\ pc' = "check"
            /\ switch_data' = CollectResult(data)
    /\ UNCHANGED <<idx, data, pending, dispatched, fmtVars, mainVars, execVars>>

\* the finally block and what follows it: close the client, then either let
\* the pending exception go on (the handler of main does not catch it) or
\* return to main
CloseSession ==
    /\ pc = "finally"
    /\ ssh' = "closed"
    /\ closeCount' = closeCount + 1
    /\ log' = Append(log, LogRecord("info", "closed", NoCmd))
    /\ last' = NoCall
    /\ IF pending # "none"
       THEN /\ pc' = "crashed"
            /\ UNCHANGED switch_data
       ELSE /\ pc' = "check"
            /\ switch_data' = CollectResult(data)
    /\ UNCHANGED <<idx, data, pending, dispatched, fmtVars, mainVars, execVars>>

\* main: if not switch_data: raise Exception, logged by the handler of main
MainRejects(sd) == sd = None \/ ~Truthy(sd.val)

MainCheckData ==
    /\ pc = "check"
    /\ IF MainRejects(switch_data)
       THEN /\ log' = Append(log, LogRecord("error", "run_error", NoCmd))
            /\ pc' = "done"
       ELSE /\ log' = log
            /\ pc' = "persist"
    /\ UNCHANGED <<ssh, idx, data, last, pending, switch_data, dispatched,
                   closeCount, fmtVars, mainVars, execVars>>

Next ==
    \/ ConfigureApiKey
    \/ MainReadCredentials
    \/ ConnectSwitch
    \/ CollectCommand
    \/ CloseSession
    \/ MainCheckData

Spec == Init /\ [][Next]_vars

\* the program with its steps taken as long as one is possible: the thread
\* is sequential, connect gives up after timeout=10 and every command after
\* timeout=30, so no step blocks for ever
SpecLive == Init /\ [][Next]_vars /\ WF_vars(Next)

----------------------------------------------------------------------------
(* execute_command called on a client in any state *)

\* what ssh.exec_command raises when the client is not connected: ssh is
\* None (connect_switch failed) or has no transport (never connected,
\* closed), so the attribute access fails; a transport that is no longer
\* active raises SSHException
NotOpenFaults == {"AttributeError", "SSHException"}

\* behaviours of the call for a client in the given state
ClientBehaviours(state) ==
    IF state = "open"
    THEN RemoteBehaviours
    ELSE [at : {"exec_command"}, exc : NotOpenFaults, out : {<<>>}, err : {<<>>}]

ClientStates == {"none", "open", "closed"}

InitExec ==
    /\ pc = "execute"
    /\ ssh \in ClientStates
    /\ idx \in 1..Len(commands)
    /\ data = <<>>
    /\ last = NoCall
    /\ pending = "none"
    /\ switch_data = None
    /\ log = <<>>
    /\ dispatched = <<>>
    /\ closeCount = IF ssh = "closed" THEN 1 ELSE 0
    /\ Idle
    /\ NotStarted

\* one call execute_command(ssh, commands[idx])
ExecuteOnClient ==
    /\ pc = "execute"
    /\ \E r \in ClientBehaviours(ssh) :
         LET cmd == commands[idx]
             res == ExecuteCommand(cmd, r)
         IN  /\ dispatched' = Append(dispatched, [cmd |-> cmd, ssh |-> ssh])
             /\ execOut' = Some(res)
             /\ last' = [command |-> cmd, output |-> res.output,
                         error |-> res.error, ret |-> res.ret,
                         raised |-> res.raised]
             /\ log' = log \o res.logs
             /\ pending' = res.raised
             /\ pc' = IF res.raised # "none" THEN "crashed" ELSE "executed"
    /\ UNCHANGED <<ssh, idx, data, switch_data, closeCount, fmtVars, mainVars>>

NextExec == ExecuteOnClient

SpecExec == InitExec /\ [][NextExec]_vars

----------------------------------------------------------------------------
(* the formatter: the join of analyze_with_ai and truncate_text *)

\* default of max_chars
DefaultMaxChars == 3000

Marker ==
    <<"\n", "\n", "[", "T", "R", "U", "N", "C", "A", "D", "O", ":", " ", "d",
      "a", "d", "o", "s", " ", "d", "e", "m", "a", "i", "s", " ", "p", "a",
      "r", "a", " ", "a", "n", "á", "l", "i", "s", "e", " ", "c", "o", "m",
      "p", "l", "e", "t", "a", "]">>

Min(a, b) == IF a < b THEN a ELSE b

Max(a, b) == IF a > b THEN a ELSE b

\* Slice keeping one character too many
SliceOneMore(text, n) ==
    IF n >= 0
    THEN SubSeq(text, 1, Min(n + 1, Len(text)))
    ELSE SubSeq(text, 1, Max(Len(text) + n + 1, 0))

\* text[:n] : a negative n counts from the end
Slice(text, n) ==
    IF n >= 0
    THEN SubSeq(text, 1, Min(n, Len(text)))
    ELSE SubSeq(text, 1, Max(Len(text) + n, 0))

\* truncate_text cutting as soon as the text reaches max_chars
truncate_text_at_limit(text, max_chars) ==
    IF Len(text) >= max_chars THEN Slice(text, max_chars) \o Marker ELSE text

truncate_text(text, max_chars) ==
    IF Len(text) > max_chars THEN Slice(text, max_chars) \o Marker ELSE text

\* f"{cmd}:\n{output}\n"
Block(entry) == ((Text(entry.key) \o <<":", "\n">>) \o entry.val) \o <<"\n">>

\* sep.join(parts)
RECURSIVE Join(_, _)
Join(sep, parts) ==
    IF parts = <<>> THEN <<>>
    ELSE IF Len(parts) = 1 THEN parts[1]
    ELSE (parts[1] \o sep) \o Join(sep, Tail(parts))

\* Blocks taking the entries last to first
BlocksReversed(d) == [i \in 1..Len(d) |-> Block(d[Len(d) + 1 - i])]

\* the list comprehension over data.items(), in insertion order
Blocks(d) == [i \in 1..Len(d) |-> Block(d[i])]

FormatData(d) == Join(<<"\n">>, Blocks(d))

\* bounds of the formatter's inputs
MaxReportLen == 2

MaxTextLen == 3

MaxMaxChars == 4

\* an output long enough for one entry to exceed the default max_chars
LongOutput == [i \in 1..DefaultMaxChars |-> "x"]

OutputSamples == { <<>>, <<"a">>, LongOutput }

\* dicts collect_switch_data can return for the first MaxReportLen commands:
\* a subset of them, in list order, each with an output
RECURSIVE ReportsFrom(_)
ReportsFrom(i) ==
    IF i > Min(MaxReportLen, Len(commands)) THEN { <<>> }
    ELSE LET rest == ReportsFrom(i + 1) IN
         rest \cup { <<[key |-> commands[i], val |-> o]>> \o d :
                        o \in OutputSamples, d \in rest }

Reports == ReportsFrom(1)

TextAlphabet == {"a", "b"}

Texts == UNION { [1..n -> TextAlphabet] : n \in 0..MaxTextLen }

InitFormat ==
    /\ pc = "analyze"
    /\ ssh = "closed"
    /\ idx = 0
    /\ data = <<>>
    /\ last = NoCall
    /\ pending = "none"
    /\ switch_data = None
    /\ log = <<>>
    /\ dispatched = <<>>
    /\ closeCount = 1
    /\ fmtPc = "ready"
    /\ fmtData \in Reports
    /\ fmtText \in Texts
    /\ fmtMax \in 0..MaxMaxChars
    /\ fmtOut = None
    /\ NotStarted

\* analyze_with_ai: join the entries of the dict, then truncate_text with the
\* default max_chars
FormatReport ==
    /\ fmtPc = "ready"
    /\ LET formatted_data == FormatData(fmtData) IN
         /\ fmtText' = formatted_data
         /\ fmtMax' = DefaultMaxChars
         /\ fmtOut' = Some(truncate_text(formatted_data, DefaultMaxChars))
    /\ fmtPc' = "formatted"
    /\ UNCHANGED <<fmtData, pipeVars, mainVars, execVars>>

\* a call truncate_text(text, max_chars)
TruncateText ==
    /\ fmtPc = "ready"
    /\ fmtOut' = Some(truncate_text(fmtText, fmtMax))
    /\ fmtPc' = "truncated"
    /\ UNCHANGED <<fmtData, fmtText, fmtMax, pipeVars, mainVars, execVars>>

NextFormat ==
    \/ FormatReport
    \/ TruncateText

SpecFormat == InitFormat /\ [][NextFormat]_vars

----------------------------------------------------------------------------
(* main after the collection, and analyze_with_ai *)

\* the value analyze_with_ai returns from its handler
AnalysisErrorMessage == "Erro ao realizar análise. Por favor, tente novamente."

\* what chain.invoke may return
ResponseSamples == {"", "analysis"}

\* the calls of analyze_with_ai that can raise, in the order it makes them
AnalysisSteps == {"PromptTemplate", "OpenAI", "format", "invoke"}

\* exceptions those calls raise: a validation error of the template or of
\* the client, an error of the service
AnalysisFaults == {"ValueError", "APIError"}

\* AnalysisCatches for a handler that catches ValueError only
AnalysisCatchesValueError(e) == e = "ValueError"

\* except Exception as e, in analyze_with_ai
AnalysisCatches(e) == IsException(e)

\* ProblemMissing for a main without the test of the description
ProblemMissingNever(p) == FALSE

\* if not problem
ProblemMissing(p) == p = <<>>

\* what open and json.dump may do: succeed or raise OSError
PersistOutcomes == {"written", "OSError"}

\* main has just received the value collect_switch_data returned
InitMain ==
    /\ pc = "check"
    /\ ssh = "closed"
    /\ idx = 0
    /\ data = <<>>
    /\ last = NoCall
    /\ pending = "none"
    /\ switch_data \in {None} \cup {Some(d) : d \in Reports \ {<<>>}}
    /\ log = <<>>
    /\ dispatched = <<>>
    /\ closeCount = 1
    /\ Idle
    /\ NotStarted

\* main: write the dict to the json file; a fault is logged by the handler
\* of main
PersistData ==
    /\ pc = "persist"
    /\ \E outcome \in PersistOutcomes :
         IF outcome = "written"
         THEN /\ saved' = Some(switch_data.val)
              /\ log' = Append(log, LogRecord("info", "saved", NoCmd))
              /\ pc' = "problem"
         ELSE /\ saved' = saved
              /\ log' = Append(log, LogRecord("error", "run_error", NoCmd))
              /\ pc' = "done"
    /\ UNCHANGED <<ssh, idx, data, last, pending, switch_data, dispatched,
                   closeCount, problem, request, analysis, fault, fmtVars,
                   execVars>>

\* main: read the description; an empty one raises ValueError, logged by
\* the handler of main
ReadProblem ==
    /\ pc = "problem"
    /\ \E typed \in InputSamples :
         LET description == Strip(typed) IN
         /\ problem' = Some(description)
         /\ IF ProblemMissing(description)
            THEN /\ log' = Append(log, LogRecord("error", "run_error", NoCmd))
                 /\ pc' = "done"
            ELSE /\ log' = log
                 /\ pc' = "analyze"
    /\ UNCHANGED <<ssh, idx, data, last, pending, switch_data, dispatched,
                   closeCount, saved, request, analysis, fault, fmtVars,
                   execVars>>

\* the call analyze_with_ai(switch_data, problem): build the template and
\* the client, format and truncate the dict, invoke the chain; an exception
\* the handler catches becomes the fixed message, any other reaches the
\* handler of main
AnalyzeWithAI ==
    /\ pc = "analyze"
    /\ \E at \in AnalysisSteps \cup {"none"}, exc \in AnalysisFaults,
          response \in ResponseSamples :
         LET formatted_data ==
                 truncate_text(FormatData(switch_data.val), DefaultMaxChars)
             sent == Some([problem |-> problem.val,
                           switch_data |-> formatted_data])
         IN  IF at = "none"
             THEN /\ request' = sent
                  /\ analysis' = Some(response)
                  /\ fault' = "none"
                  /\ log' = log
                  /\ pc' = "report"
             ELSE /\ request' = IF at = "invoke" THEN sent ELSE request
                  /\ fault' = exc
                  /\ IF AnalysisCatches(exc)
                     THEN /\ analysis' = Some(AnalysisErrorMessage)
                          /\ log' = Append(log, LogRecord("error", "analysis_error", NoCmd))
                          /\ pc' = "report"
                     ELSE /\ analysis' = analysis
                          /\ log' = Append(log, LogRecord("error", "run_error", NoCmd))
                          /\ pc' = "done"
    /\ UNCHANGED <<ssh, idx, data, last, pending, switch_data, dispatched,
                   closeCount, saved, problem, fmtVars, execVars>>

\* main: print the analysis and log the end of the run
MainReport ==
    /\ pc = "report"
    /\ log' = Append(log, LogRecord("info", "analysis_done", NoCmd))
    /\ pc' = "done"
    /\ UNCHANGED <<ssh, idx, data, last, pending, switch_data, dispatched,
                   closeCount, mainVars, fmtVars, execVars>>

NextMain ==
    \/ MainCheckData
    \/ PersistData
    \/ ReadProblem
    \/ AnalyzeWithAI
    \/ MainReport

SpecMain == InitMain /\ [][NextMain]_vars

----------------------------------------------------------------------------
(* observations used by the properties of the collection pipeline *)

Logged(level, event, cmd) ==
    \E i \in 1..Len(log) : log[i] = LogRecord(level, event, cmd)

\* connect_switch logged a successful connection
Connected == Logged("info", "connected", NoCmd)

\* connect_switch logged a failed connection
ConnectFailed == Logged("error", "connect_error", NoCmd)

\* execute_command logged a fault for the command: its outcome is Failed
LoggedFailed(cmd) == Logged("error", "command_error", cmd)

\* execute_command logged the command's standard-error: its outcome is Warning
LoggedWarning(cmd) == Logged("warning", "command_stderr", cmd)

NotFailed(cmd) == ~LoggedFailed(cmd)

\* collect_switch_data has returned to main
Returned == pc \in {"check", "persist", "done"} /\ Logged("info", "collect_start", NoCmd)

\* collect_switch_data has returned or has let an exception through
Exited == Returned \/ (pc = "crashed" /\ Logged("info", "collect_start", NoCmd))

DispatchedCommands == [i \in 1..Len(dispatched) |-> dispatched[i].cmd]

\* C1: once connect has succeeded and collect_switch_data has returned, the
\* dict it built holds exactly one entry per command that did not end
\* Failed, in the order of the fixed list, and that dict is what it returns
\* when there is at least one such command.
C1_ReportEntriesInListOrder ==
    (Returned /\ Connected) =>
        LET kept == SelectSeq(commands, NotFailed) IN
        /\ Keys(data) = kept
        /\ Len(data) = Len(kept)
        /\ kept # <<>> => switch_data = Some(data)

\* a run that returned three entries, the first command of the list having
\* failed and the last one having been recorded
C1_Witness ==
    /\ pc = "check"
    /\ Connected
    /\ switch_data # None
    /\ Len(switch_data.val) = 3
    /\ LoggedFailed(commands[1])
    /\ switch_data.val[3].key = commands[Len(commands)]

\* C2: ssh.close is never called twice, and once connect has succeeded every
\* exit of collect_switch_data (return, or an exception let through) leaves
\* the client closed by exactly one call of close.
C2_ClosedExactlyOnce ==
    /\ closeCount <= 1
    /\ (Exited /\ Connected) => (closeCount = 1 /\ ssh = "closed")

\* an exception that left the loop after some, not all, commands
C2_Witness ==
    /\ pc = "crashed"
    /\ pending = "KeyboardInterrupt"
    /\ Len(dispatched) \in 2..(Len(commands) - 1)
    /\ closeCount = 1
    /\ ssh = "closed"

\* C3: the commands handed to ssh.exec_command are always a prefix of the
\* fixed list (list order, each once, no retry); when collect_switch_data
\* returns after a successful connect the prefix is the whole list, whatever
\* failed; and no fault execute_command catches ever leaves the loop.
C3_FailureIsolation ==
    /\ DispatchedCommands = SubSeq(commands, 1, Len(dispatched))
    /\ (Returned /\ Connected) => DispatchedCommands = commands
    /\ pending \notin (TransportFaults \cup {"UnicodeDecodeError"})
    /\ \A i \in 1..Len(commands) :
          (LoggedFailed(commands[i]) /\ pending = "none" /\ i < Len(commands)
             /\ pc \in {"finally", "check", "persist", "done"})
          => Len(dispatched) > i

\* a returned run in which the first and the fourth command failed and all
\* seven were dispatched
C3_Witness ==
    /\ pc = "check"
    /\ LoggedFailed(commands[1])
    /\ LoggedFailed(commands[4])
    /\ Len(dispatched) = Len(commands)
    /\ switch_data # None

\* C4: after a failed connect no command is dispatched, the dict is never
\* created, close is never called, None is returned, and nothing but the
\* connect failure (and then main's own error) is logged after the start of
\* the collection.
C4_ConnectFailureReturnsAtOnce ==
    ConnectFailed =>
        /\ pc \in {"check", "done"}
        /\ dispatched = <<>>
        /\ idx = 0
        /\ data = <<>>
        /\ closeCount = 0
        /\ ssh = "none"
        /\ switch_data = None
        /\ \A i \in 1..Len(log) :
              log[i].event \in {"main_start", "collect_start", "connect_error",
                                "run_error"}

\* collect_switch_data has just returned from a failed connect
C4_Witness ==
    /\ pc = "check"
    /\ ConnectFailed
    /\ switch_data = None

\* C5: when connect succeeded and every command of the list ended Failed,
\* collect_switch_data returns None and the client was closed exactly once.
C5_AllFailedReturnsNone ==
    (Returned /\ Connected /\ \A i \in 1..Len(commands) : LoggedFailed(commands[i]))
        => (switch_data = None /\ closeCount = 1 /\ ssh = "closed")

\* all seven commands were dispatched and failed, and collect returned
C5_Witness ==
    /\ pc = "check"
    /\ Connected
    /\ Len(dispatched) = Len(commands)
    /\ \A i \in 1..Len(commands) : LoggedFailed(commands[i])
    /\ closeCount = 1

\* C6: after a successful connect collect_switch_data returns a dict exactly
\* when some command did not end Failed, empty outputs included; main goes
\* on past its test exactly when a dict was returned and fails otherwise.
C6_SuccessIffOneCommandRecorded ==
    /\ (Returned /\ Connected) =>
          (switch_data # None <=> \E i \in 1..Len(commands) : NotFailed(commands[i]))
    /\ pc = "persist" => switch_data # None
    /\ (pc = "done" /\ Returned) =>
          (switch_data = None /\ log[Len(log)] = LogRecord("error", "run_error", NoCmd))

\* main accepted a dict whose only entry is an empty output, every other
\* command having failed
C6_Witness ==
    /\ pc = "persist"
    /\ Len(switch_data.val) = 1
    /\ switch_data.val[1].val = <<>>
    /\ Cardinality({i \in 1..Len(commands) : LoggedFailed(commands[i])})
         = Len(commands) - 1

----------------------------------------------------------------------------
(* properties of the formatter *)

\* C8: whatever the text and the character count max_chars (0 or more), the
\* string truncate_text returns is at most max_chars + |marker| long, and a text no longer than max_chars
\* (a text of exactly max_chars characters included) is returned as it is,
\* without the marker.
C8_TruncationLaw ==
    fmtOut # None =>
        /\ Len(fmtOut.val) <= fmtMax + Len(Marker)
        /\ Len(fmtText) <= fmtMax => fmtOut.val = fmtText

\* a non-empty text of exactly max_chars characters came back unchanged
C8_Witness ==
    /\ fmtPc = "truncated"
    /\ fmtMax > 0
    /\ Len(fmtText) = fmtMax
    /\ fmtOut = Some(fmtText)

\* C9: when the text is longer than max_chars the result is the first
\* max_chars characters of the text followed by the marker, character for
\* character, so its length is exactly max_chars + |marker|.
C9_CutThenMarker ==
    (fmtOut # None /\ Len(fmtText) > fmtMax) =>
        /\ Len(fmtOut.val) = fmtMax + Len(Marker)
        /\ \A i \in 1..Len(fmtOut.val) :
              fmtOut.val[i] = IF i <= fmtMax THEN fmtText[i] ELSE Marker[i - fmtMax]

\* the formatter cut the concatenation in the middle of a command's output
C9_Witness ==
    /\ fmtPc = "formatted"
    /\ Len(fmtText) > fmtMax
    /\ fmtText[fmtMax] = "x"
    /\ fmtText[fmtMax + 1] = "x"
    /\ fmtOut.val[fmtMax] = "x"
    /\ fmtOut.val[fmtMax + 1] = "\n"

\* position in the concatenation of the first character of entry i: each
\* earlier entry takes its command, ":", a newline, its output, a newline
\* and the delimiter
RECURSIVE BlockStart(_, _)
BlockStart(d, i) ==
    IF i = 1 THEN 1
    ELSE BlockStart(d, i - 1) + Len(Text(d[i - 1].key)) + Len(d[i - 1].val) + 4

\* C10: the concatenation the formatter builds holds, for the entries of the
\* dict in insertion order, the command's text, ":", a newline, the output
\* and a newline, with one newline as delimiter between two entries and
\* nothing else; an untruncated result is that concatenation.
C10_EntriesInInsertionOrder ==
    fmtPc = "formatted" =>
        LET d == fmtData
            n == Len(d)
            t == fmtText
        IN  /\ Len(t) = IF n = 0 THEN 0 ELSE BlockStart(d, n + 1) - 2
            /\ \A i \in 1..n :
                  LET s == BlockStart(d, i)
                      k == Len(Text(d[i].key))
                      v == Len(d[i].val)
                  IN  /\ SubSeq(t, s, s + k - 1) = Text(d[i].key)
                      /\ t[s + k] = ":"
                      /\ t[s + k + 1] = "\n"
                      /\ SubSeq(t, s + k + 2, s + k + 1 + v) = d[i].val
                      /\ t[s + k + 2 + v] = "\n"
                      /\ i < n => t[s + k + 3 + v] = "\n"
            /\ Len(t) <= DefaultMaxChars => fmtOut = Some(t)

\* a dict of two entries with different outputs was formatted untruncated
C10_Witness ==
    /\ fmtPc = "formatted"
    /\ Len(fmtData) = 2
    /\ fmtData[1].val = <<"a">>
    /\ fmtData[2].val = <<>>
    /\ fmtOut = Some(fmtText)

----------------------------------------------------------------------------
(* further properties of the collection pipeline *)

\* number of times connect_switch logged a successful connection
OpenCount == Cardinality({i \in 1..Len(log) : log[i].event = "connected"})

\* C11: the client is opened at most once, only by a successful connect,
\* and closed at most once, only after it was opened; it is open exactly
\* between the two; once collect_switch_data has exited after a successful
\* connect both have happened exactly once; and every call of
\* ssh.exec_command was made while the client was open.
C11_SessionLifecycle ==
    /\ OpenCount <= 1
    /\ closeCount <= OpenCount
    /\ ssh = "none" <=> OpenCount = 0
    /\ ssh = "open" <=> (OpenCount = 1 /\ closeCount = 0)
    /\ ssh = "closed" <=> (OpenCount = 1 /\ closeCount = 1)
    /\ (Exited /\ OpenCount = 1) => closeCount = 1
    /\ \A i \in 1..Len(dispatched) : dispatched[i].ssh = "open"
    /\ (ssh # "open" /\ pc # "crashed") => Len(dispatched) \in {0, Len(commands)}

\* main went on with a report after the client was opened, used for all
\* seven commands and closed
C11_Witness ==
    /\ pc = "persist"
    /\ OpenCount = 1
    /\ closeCount = 1
    /\ ssh = "closed"
    /\ Len(dispatched) = Len(commands)

\* C14: a call of execute_command in which exec_command, the read of
\* standard-output or the read of standard-error raised a fault the handler
\* catches returns None, logs the failure, and leaves no entry for the
\* command in the dict, also when standard-output had been read and decoded
\* before the fault.
C14_FailedCarriesNoOutput ==
    (last.command # NoCmd /\ last.raised = "none" /\ last.error = None) =>
        /\ last.ret = None
        /\ LoggedFailed(last.command)
        /\ Logged("warning", "command_failed", last.command)
        /\ ~HasKey(data, last.command)
        /\ \A i \in 1..Len(data) : data[i].key # last.command

\* standard-output "a" had been read when the read of standard-error
\* failed, and the command has no entry
C14_Witness ==
    /\ last.command # NoCmd
    /\ last.raised = "none"
    /\ last.output = Some(<<"a">>)
    /\ last.error = None
    /\ last.ret = None
    /\ ~HasKey(data, last.command)
    /\ Len(data) > 0

\* C15: every run that enters collect_switch_data leaves it (by return or,
\* for an exception it does not catch, by letting it through) with the
\* client not open; it never calls exec_command more than once per command
\* of the list; and a command that failed, by timeout or otherwise, is
\* followed in the loop by the next command of the list.
C15_CollectTerminates ==
    /\ (pc = "collect") ~> (pc \in {"check", "crashed"} /\ ssh # "open")
    /\ [](Len(dispatched) <= Len(commands))
    /\ []((pc = "loop" /\ last.command # NoCmd /\ last.ret = None) =>
            (idx \in 2..Len(commands) /\ commands[idx - 1] = last.command
               /\ Len(dispatched) = idx - 1))

\* a run that is over after seven dispatches that all failed
C15_Witness ==
    /\ pc = "done"
    /\ Connected
    /\ Len(dispatched) = Len(commands)
    /\ \A i \in 1..Len(commands) : LoggedFailed(commands[i])
    /\ ssh = "closed"

----------------------------------------------------------------------------
(* properties of execute_command on its own *)

----------------------------------------------------------------------------
(* properties of main after the collection, and of analyze_with_ai *)

\* analyze_with_ai has been called in this run
AnalysisStarted ==
    \/ pc \in {"analyze", "report"}
    \/ analysis # None
    \/ request # None
    \/ fault # "none"
    \/ Logged("error", "analysis_error", NoCmd)
    \/ Logged("info", "analysis_done", NoCmd)

\* what main needs before it calls analyze_with_ai
ReadyForAnalysis ==
    /\ switch_data # None
    /\ Truthy(switch_data.val)
    /\ saved = Some(switch_data.val)
    /\ Logged("info", "saved", NoCmd)
    /\ problem # None
    /\ problem.val # <<>>

\* C16: analyze_with_ai is called only once collect_switch_data has returned
\* a non-empty dict, that dict has been written to the file and a non-empty
\* description has been read; a run that ends with no dict, a failed write
\* or an empty description has never called it.
C16_AnalysisOnlyAfterPipeline ==
    /\ AnalysisStarted => ReadyForAnalysis
    /\ (pc = "done" /\ ~ReadyForAnalysis) =>
          /\ ~AnalysisStarted
          /\ log[Len(log)] = LogRecord("error", "run_error", NoCmd)

\* a run that went through the whole pipeline and sent a request
C16_Witness ==
    /\ pc = "done"
    /\ ReadyForAnalysis
    /\ request # None
    /\ request.val.problem = problem.val
    /\ analysis = Some("analysis")
    /\ log[Len(log)] = LogRecord("info", "analysis_done", NoCmd)

====
